---- MODULE Spec2Model ----
(***************************************************************************)
(* Model of the property-listing service of src/main.py: the three        *)
(* handlers add_property, list_properties and get_property, the schema    *)
(* validation of src/schemas.py, and the "property" collection they read  *)
(* and write.                                                              *)
(*                                                                         *)
(* Python values are tagged records [t |-> type name, v |-> payload].     *)
(* Text is a sequence of one-character strings, so that substring search, *)
(* case folding and formatting are computed and not assumed.              *)
(***************************************************************************)
EXTENDS Integers, Sequences, FiniteSets, TLC

(***************************************************************************)
(* Bounds of the model.                                                    *)
(***************************************************************************)
\* Largest number of documents the collection holds.
MaxDocs == 2
\* Number of hex digits of an ObjectId in the model (24 in bson).
OidLen == 2

(***************************************************************************)
(* Python values.                                                          *)
(***************************************************************************)
None == [t |-> "NoneType", v |-> 0]
Str(s) == [t |-> "str", v |-> s]
PyInt(n) == [t |-> "int", v |-> n]
PyFloat(n) == [t |-> "float", v |-> n]
Bool(b) == [t |-> "bool", v |-> b]
\* bson.ObjectId holding the given lower-case hex digits.
ObjectIdValue(hex) == [t |-> "ObjectId", v |-> hex]
\* datetime.datetime, as microseconds since 1970-01-01T00:00:00.
Datetime(us) == [t |-> "datetime", v |-> us]
\* dict, as its entries in insertion order; list, as its items.
Dict(entries) == [t |-> "dict", v |-> entries]
List(items) == [t |-> "list", v |-> items]

IsNumber(x) == x.t \in {"int", "float"}

\* Python truth value of an Optional[str] / Optional[number] argument.
Truthy(x) ==
    CASE x.t = "NoneType" -> FALSE
      [] x.t = "str" -> x.v # <<>>
      [] x.t = "bool" -> x.v
      [] x.t \in {"int", "float"} -> x.v # 0
      [] OTHER -> TRUE

\* `x is not None`
IsNotNone(x) == x.t # "NoneType"

(***************************************************************************)
(* Text.                                                                   *)
(***************************************************************************)
Lower(c) ==
    CASE c = "A" -> "a"
      [] c = "B" -> "b"
      [] c = "C" -> "c"
      [] c = "D" -> "d"
      [] c = "E" -> "e"
      [] c = "F" -> "f"
      [] OTHER -> c

LowerText(s) == [i \in 1..Len(s) |-> Lower(s[i])]

DigitChar(n) == <<"0", "1", "2", "3", "4", "5", "6", "7", "8", "9">>[n + 1]

RECURSIVE Decimal(_)
\* str(n) for a natural number n.
Decimal(n) == IF n < 10 THEN <<DigitChar(n)>>
              ELSE Decimal(n \div 10) \o <<DigitChar(n % 10)>>

RECURSIVE ZeroPad(_, _)
\* The text s left-padded with "0" to the given width.
ZeroPad(s, width) == IF Len(s) >= width THEN s ELSE ZeroPad(<<"0">> \o s, width)

(***************************************************************************)
(* dict operations on the insertion-ordered representation.                *)
(***************************************************************************)
DictKeys(d) == [i \in 1..Len(d.v) |-> d.v[i].k]
DictHas(d, key) == \E i \in 1..Len(d.v) : d.v[i].k = key
DictGet(d, key) == d.v[CHOOSE i \in 1..Len(d.v) : d.v[i].k = key].v

\* A dict that loses the insertion order: the new key is put first.
DictSetFront(d, key, value) ==
    Dict(<<[k |-> key, v |-> value]>> \o d.v)

\* d[key] = value: an existing key keeps its place, a new key goes last.
DictSet(d, key, value) ==
    IF DictHas(d, key)
    THEN Dict([i \in 1..Len(d.v) |->
                 IF d.v[i].k = key THEN [k |-> key, v |-> value] ELSE d.v[i]])
    ELSE Dict(Append(d.v, [k |-> key, v |-> value]))

EmptyDict == Dict(<<>>)

(***************************************************************************)
(* list_properties, lines 106-127: the filter.                            *)
(***************************************************************************)
\* {"$regex": pattern, "$options": "i"}
RegexClause(pattern) ==
    DictSet(DictSet(EmptyDict, "$regex", pattern), "$options", Str(<<"i">>))

AddType(f, type) ==
    IF Truthy(type) THEN DictSet(f, "type", type) ELSE f

AddLocation(f, location) ==
    IF Truthy(location) THEN DictSet(f, "location", RegexClause(location)) ELSE f

\* `if bedrooms:` in place of `if bedrooms is not None:`.
AddBedroomsTruthy(f, bedrooms) ==
    IF Truthy(bedrooms) THEN DictSet(f, "bedrooms", bedrooms) ELSE f

AddBedrooms(f, bedrooms) ==
    IF IsNotNone(bedrooms) THEN DictSet(f, "bedrooms", bedrooms) ELSE f

AddFeatured(f, featured) ==
    IF IsNotNone(featured) THEN DictSet(f, "featured", featured) ELSE f

\* `if min_price:` / `if max_price:` in place of the `is not None` tests.
PriceFilterTruthy(min_price, max_price) ==
    LET p0 == EmptyDict
        p1 == IF Truthy(min_price) THEN DictSet(p0, "$gte", min_price) ELSE p0
        p2 == IF Truthy(max_price) THEN DictSet(p1, "$lte", max_price) ELSE p1
    IN  p2

\* lines 116-120
PriceFilter(min_price, max_price) ==
    LET p0 == EmptyDict
        p1 == IF IsNotNone(min_price) THEN DictSet(p0, "$gte", min_price) ELSE p0
        p2 == IF IsNotNone(max_price) THEN DictSet(p1, "$lte", max_price) ELSE p1
    IN  p2

AddPrice(f, min_price, max_price) ==
    IF IsNotNone(min_price) \/ IsNotNone(max_price)
    THEN DictSet(f, "price", PriceFilter(min_price, max_price))
    ELSE f

\* The free-text clause without the test against `type`.
OrClauseTwoFields(q) ==
    List(<<DictSet(EmptyDict, "title", RegexClause(q)),
           DictSet(EmptyDict, "location", RegexClause(q))>>)

\* lines 123-127
OrClause(q) ==
    List(<<DictSet(EmptyDict, "title", RegexClause(q)),
           DictSet(EmptyDict, "location", RegexClause(q)),
           DictSet(EmptyDict, "type", RegexClause(q))>>)

AddQ(f, q) ==
    IF Truthy(q) THEN DictSet(f, "$or", OrClause(q)) ELSE f

\* lines 106-127
BuildFilter(q, type, location, min_price, max_price, bedrooms, featured) ==
    LET f0 == EmptyDict
        f1 == AddType(f0, type)
        f2 == AddLocation(f1, location)
        f3 == AddBedrooms(f2, bedrooms)
        f4 == AddFeatured(f3, featured)
        f5 == AddPrice(f4, min_price, max_price)
        f6 == AddQ(f5, q)
    IN  f6

(***************************************************************************)
(* Conversions used by the normalization steps.                            *)
(***************************************************************************)
\* str(x)
PyStr(x) ==
    CASE x.t = "str" -> x.v
      [] x.t = "ObjectId" -> x.v
      [] x.t \in {"int", "float"} ->
            IF x.v < 0 THEN <<"-">> \o Decimal(0 - x.v) ELSE Decimal(x.v)
      [] x.t = "bool" -> IF x.v THEN <<"T", "r", "u", "e">>
                         ELSE <<"F", "a", "l", "s", "e">>
      [] OTHER -> <<"N", "o", "n", "e">>

\* Whether x.isoformat() exists; any other value raises AttributeError.
HasIsoformat(x) == x.t = "datetime"

\* datetime.isoformat() of a time of day on 1970-01-01: the fraction is
\* written only when the microseconds are not zero.
Isoformat(x) ==
    LET secs == x.v \div 1000000
        micro == x.v % 1000000
        hh == ZeroPad(Decimal((secs \div 3600) % 24), 2)
        mm == ZeroPad(Decimal((secs \div 60) % 60), 2)
        ss == ZeroPad(Decimal(secs % 60), 2)
        date == <<"1", "9", "7", "0", "-", "0", "1", "-", "0", "1", "T">>
        clock == hh \o <<":">> \o mm \o <<":">> \o ss
    IN  IF micro = 0 THEN date \o clock
        ELSE date \o clock \o <<".">> \o ZeroPad(Decimal(micro), 6)

(***************************************************************************)
(* Documents are functions from field name to value.                       *)
(***************************************************************************)
\* d.pop(key) seen as the remaining document.
Without(d, key) == [k \in DOMAIN d \ {key} |-> d[k]]

\* d[key] = value
With(d, key, value) == [k \in DOMAIN d \cup {key} |-> IF k = key THEN value ELSE d[k]]

\* `d["id"] = str(d.pop("_id", None))` without the `if "_id" in d:` test.
IdStepUnconditional(d) ==
    With(Without(d, "_id"), "id",
         Str(PyStr(IF "_id" \in DOMAIN d THEN d["_id"] ELSE None)))

\* `d["id"] = str(d["_id"])` without the pop: the `_id` key stays.
IdStepKeepsKey(d) ==
    IF "_id" \in DOMAIN d THEN With(d, "id", Str(PyStr(d["_id"]))) ELSE d

\* lines 131-132
IdStep(d) ==
    IF "_id" \in DOMAIN d THEN With(Without(d, "_id"), "id", Str(PyStr(d["_id"]))) ELSE d

\* The conversion without the try/except: a value with no isoformat()
\* loses the field instead of keeping it.
IsoStepUnguarded(d, key) ==
    IF key \in DOMAIN d
    THEN IF HasIsoformat(d[key]) THEN With(d, key, Str(Isoformat(d[key])))
         ELSE Without(d, key)
    ELSE d

\* lines 133-137 and 138-142 (158-162 and 163-167 in get_property)
IsoStep(d, key) ==
    IF key \in DOMAIN d /\ HasIsoformat(d[key])
    THEN With(d, key, Str(Isoformat(d[key])))
    ELSE d

\* `if "_id" not in d: continue` at the head of the loop body.
NormalizeListDocSkipNoId(d) ==
    IF "_id" \in DOMAIN d
    THEN IsoStep(IsoStep(IdStep(d), "created_at"), "updated_at")
    ELSE d

\* lines 131-142: the body of the loop over the returned documents
NormalizeListDoc(d) == IsoStep(IsoStep(IdStep(d), "created_at"), "updated_at")

\* lines 157-167; the document was found by its `_id`
NormalizeGetDoc(d) ==
    IsoStep(IsoStep(With(Without(d, "_id"), "id", Str(PyStr(d["_id"]))),
                    "created_at"), "updated_at")

(***************************************************************************)
(* The store layer (database.py): the collection is the sequence of its   *)
(* documents in insertion order.                                           *)
(***************************************************************************)
\* Case-insensitive search of the pattern in the text.
Contains(pattern, text) ==
    \E i \in 0..(Len(text) - Len(pattern)) :
        \A j \in 1..Len(pattern) : Lower(pattern[j]) = Lower(text[i + j])

\* Equality of a stored value and a queried one: numbers by value.
ValueEq(a, b) ==
    IF IsNumber(a) /\ IsNumber(b) THEN a.v = b.v ELSE a = b

\* One {field: condition} test of a filter against a document.
FieldTest(doc, field, cond) ==
    /\ field \in DOMAIN doc
    /\ IF cond.t = "dict" /\ DictHas(cond, "$regex")
       THEN /\ doc[field].t = "str"
            /\ Contains(DictGet(cond, "$regex").v, doc[field].v)
       ELSE IF cond.t = "dict"
       THEN /\ IsNumber(doc[field])
            /\ DictHas(cond, "$gte") => doc[field].v >= DictGet(cond, "$gte").v
            /\ DictHas(cond, "$lte") => doc[field].v <= DictGet(cond, "$lte").v
       ELSE ValueEq(doc[field], cond)

\* Every test of a one-level filter holds.
AllTests(doc, f) ==
    \A i \in 1..Len(f.v) : FieldTest(doc, f.v[i].k, f.v[i].v)

\* The document satisfies the filter: every entry holds, an "$or" entry
\* when one of its alternatives does.
Matches(doc, f) ==
    \A i \in 1..Len(f.v) :
        IF f.v[i].k = "$or"
        THEN \E j \in 1..Len(f.v[i].v.v) : AllTests(doc, f.v[i].v.v[j])
        ELSE FieldTest(doc, f.v[i].k, f.v[i].v)

Min(a, b) == IF a <= b THEN a ELSE b

\* get_documents(collection, filter, limit): the first `limit` matches.
get_documents(coll, f, limit) ==
    LET hits == SelectSeq(coll, LAMBDA d : Matches(d, f))
    IN  SubSeq(hits, 1, Min(limit, Len(hits)))

\* The n-th ObjectId the store hands out.
GenOid(n) ==
    [i \in 1..OidLen |-> IF i = 1 THEN "a" ELSE IF i = OidLen THEN DigitChar(n) ELSE "0"]

\* The time of the n-th insert: 1.5 s apart, so that every second
\* timestamp has no microseconds.
Now(n) == Datetime(n * (3 * 500000))

\* create_document(collection, data): the stored document.
NewDocument(coll, data) ==
    [k \in DOMAIN data \cup {"_id", "created_at", "updated_at"} |->
        CASE k = "_id" -> ObjectIdValue(GenOid(Len(coll) + 1))
          [] k \in {"created_at", "updated_at"} -> Now(Len(coll) + 1)
          [] OTHER -> data[k]]

\* db["property"].find_one({"_id": oid}): the matching documents, in order.
FindById(coll, oid) ==
    SelectSeq(coll, LAMBDA d : "_id" \in DOMAIN d /\ d["_id"] = oid)

(***************************************************************************)
(* bson.ObjectId(property_id), line 151.                                   *)
(***************************************************************************)
HexChars == {"0", "1", "2", "3", "4", "5", "6", "7", "8", "9",
             "a", "b", "c", "d", "e", "f", "A", "B", "C", "D", "E", "F"}

\* Any text of the right length is taken for an identifier.
IsValidObjectIdLengthOnly(s) == Len(s) = OidLen

IsValidObjectId(s) ==
    /\ Len(s) = OidLen
    /\ \A i \in 1..Len(s) : s[i] \in HexChars

ParseObjectId(s) == ObjectIdValue(LowerText(s))

(***************************************************************************)
(* schemas.Property, lines 50-54: the ge=0 constraints.                    *)
(***************************************************************************)
NonNegativeIfPresent(x) == IsNotNone(x) => x.v >= 0

\* The schema without `ge=0` on bathrooms and the two areas.
PropertyValidPriceBedroomsOnly(p) ==
    /\ p.price.v >= 0
    /\ NonNegativeIfPresent(p.bedrooms)

PropertyValid(p) ==
    /\ p.price.v >= 0
    /\ NonNegativeIfPresent(p.bedrooms)
    /\ NonNegativeIfPresent(p.bathrooms)
    /\ NonNegativeIfPresent(p.building_area_sqm)
    /\ NonNegativeIfPresent(p.land_area_sqm)

(***************************************************************************)
(* Request inputs.                                                         *)
(***************************************************************************)
QInputs == {None, Str(<<>>), Str(<<"a">>), Str(<<"c", "A">>)}
TypeInputs == {None, Str(<<>>), Str(<<"a">>)}
LocationInputs == {None, Str(<<>>), Str(<<"A">>)}
PriceInputs == {None, PyFloat(0), PyFloat(1)}
BedroomsInputs == {None, PyInt(0), PyInt(1)}
FeaturedInputs == {None, Bool(FALSE), Bool(TRUE)}
\* Limits inside Query(20, ge=1, le=100); LimitInputs adds 0, which is
\* refused before the handler body runs.
ListLimits == {1, 20}
LimitInputs == {0} \cup ListLimits

\* A request body of POST /api/properties (PropertyCreate, lines 73-84).
Body(title, type, location, price, bedrooms, bathrooms, building, land, featured) ==
    [title |-> Str(title), type |-> Str(type), location |-> Str(location),
     price |-> PyFloat(price), bedrooms |-> bedrooms, bathrooms |-> bathrooms,
     building_area_sqm |-> building, land_area_sqm |-> land,
     images |-> List(<<>>), description |-> None, featured |-> Bool(featured)]

\* Bodies the schema accepts: the free-text term "a" is found in the title
\* of the first only, the type of the second only, the location of the third only.
GoodBodies ==
    {Body(<<"A">>, <<"c">>, <<"c">>, 0, None, None, None, None, FALSE),
     Body(<<"b">>, <<"a">>, <<"c">>, 1, PyInt(0), PyInt(0), PyFloat(0), PyFloat(0), TRUE),
     Body(<<"b">>, <<"c">>, <<"c", "A">>, 2, PyInt(1), PyInt(1), PyFloat(1), PyFloat(1), FALSE)}

\* Bodies breaking one bound each.
BadBodies ==
    {Body(<<"A">>, <<"c">>, <<"c">>, -1, None, None, None, None, FALSE),
     Body(<<"A">>, <<"c">>, <<"c">>, 0, PyInt(-1), None, None, None, FALSE),
     Body(<<"A">>, <<"c">>, <<"c">>, 0, None, PyInt(-1), None, None, FALSE),
     Body(<<"A">>, <<"c">>, <<"c">>, 0, None, None, PyFloat(-1), None, FALSE),
     Body(<<"A">>, <<"c">>, <<"c">>, 0, None, None, None, PyFloat(-1), FALSE)}

Bodies == GoodBodies \cup BadBodies

\* Path parameters of GET /api/properties/{property_id}: identifiers the
\* store has handed out or not yet, one in upper case, and malformed ones
\* (too short, too long, not hexadecimal).
PropertyIdInputs ==
    {GenOid(n) : n \in 1..(MaxDocs + 1)}
    \cup {[GenOid(1) EXCEPT ![1] = "A"]}
    \cup {SubSeq(GenOid(1), 1, OidLen - 1), GenOid(1) \o <<"0">>,
          [GenOid(1) EXCEPT ![1] = "g"]}

(***************************************************************************)
(* Documents other writers may have left in the collection: the `_id` is  *)
(* an ObjectId or missing; `created_at` is missing, a timestamp or a      *)
(* text; `updated_at` is missing, a timestamp or null.                    *)
(***************************************************************************)
Absent == [t |-> "absent", v |-> 0]

RawShapes ==
    [id : {"absent", "oid"},
     created_at : {Absent, Datetime(3 * 500000), Str(<<"b">>)},
     updated_at : {Absent, Datetime(6 * 500000), None}]

\* The document of the given shape at position n of the collection.
RawDoc(n, shape) ==
    LET fields ==
            [title |-> Str(<<"A">>), type |-> Str(<<"a">>), location |-> Str(<<"c">>),
             price |-> PyFloat(1), featured |-> Bool(FALSE),
             _id |-> IF shape.id = "oid" THEN ObjectIdValue(GenOid(n)) ELSE Absent,
             created_at |-> shape.created_at,
             updated_at |-> shape.updated_at]
    IN  [k \in {x \in DOMAIN fields : fields[x] # Absent} |-> fields[k]]

RawStores ==
    UNION {{[i \in 1..n |-> RawDoc(i, shapes[i])] : shapes \in [1..n -> RawShapes]} :
           n \in 1..MaxDocs}

(***************************************************************************)
(* State.                                                                  *)
(***************************************************************************)
VARIABLES
    db,           \* TRUE when the database is configured (`db is not None`)
    store,        \* the "property" collection
    req,          \* the request being served, [op |-> "idle"] between requests
    filter_dict,  \* list_properties: the filter built for the request
    docs,         \* the documents the store returned for the request
    resp          \* the response: status and body

vars == <<db, store, req, filter_dict, docs, resp>>

Idle == [op |-> "idle"]
NoResponse == [status |-> 0, body |-> None]

Error(status, detail) == [status |-> status, body |-> [detail |-> detail]]

Init ==
    /\ db \in BOOLEAN
    /\ store = <<>>
    /\ req = Idle
    /\ filter_dict = EmptyDict
    /\ docs = <<>>
    /\ resp = NoResponse

\* The collection as found with documents written by other clients.
InitRaw ==
    /\ db = TRUE
    /\ store \in RawStores
    /\ req = Idle
    /\ filter_dict = EmptyDict
    /\ docs = <<>>
    /\ resp = NoResponse

(***************************************************************************)
(* POST /api/properties, lines 86-92.                                      *)
(***************************************************************************)
add_property(payload) ==
    /\ req = Idle
    /\ (PropertyValid(payload) /\ db) => Len(store) < MaxDocs
    /\ req' = [op |-> "add", payload |-> payload]
    /\ IF ~PropertyValid(payload)
       THEN \* PropertySchema(**...) raises ValidationError
            /\ resp' = Error(500, "Internal Server Error")
            /\ store' = store
       ELSE IF ~db
       THEN /\ resp' = Error(500, "Internal Server Error")
            /\ store' = store
       ELSE LET doc == NewDocument(store, payload)
            IN  /\ store' = Append(store, doc)
                /\ resp' = [status |-> 200,
                            body |-> [id |-> Str(PyStr(doc["_id"])), status |-> "created"]]
    /\ UNCHANGED <<db, filter_dict, docs>>

(***************************************************************************)
(* GET /api/properties, lines 94-143.                                      *)
(***************************************************************************)
list_properties(q, type, location, min_price, max_price, bedrooms, featured, limit) ==
    /\ req = Idle
    /\ req' = [op |-> "list", q |-> q, type |-> type, location |-> location,
               min_price |-> min_price, max_price |-> max_price,
               bedrooms |-> bedrooms, featured |-> featured, limit |-> limit]
    /\ IF limit < 1 \/ limit > 100
       THEN /\ filter_dict' = EmptyDict
            /\ docs' = <<>>
            /\ resp' = Error(422, "Unprocessable Entity")
       ELSE LET f == BuildFilter(q, type, location, min_price, max_price,
                                 bedrooms, featured)
            IN  /\ filter_dict' = f
                /\ IF ~db
                   THEN /\ docs' = <<>>
                        /\ resp' = Error(500, "Internal Server Error")
                   ELSE LET found == get_documents(store, f, limit)
                        IN  /\ docs' = found
                            /\ resp' = [status |-> 200,
                                        body |-> [items |->
                                            [i \in 1..Len(found) |->
                                                NormalizeListDoc(found[i])]]]
    /\ UNCHANGED <<db, store>>

(***************************************************************************)
(* GET /api/properties/{property_id}, lines 145-168.                       *)
(***************************************************************************)
get_property(property_id) ==
    /\ req = Idle
    /\ req' = [op |-> "get", property_id |-> property_id]
    /\ IF ~db
       THEN /\ docs' = <<>>
            /\ resp' = Error(500, "Database not configured")
       ELSE IF ~IsValidObjectId(property_id)
       THEN /\ docs' = <<>>
            /\ resp' = Error(400, "Invalid property id")
       ELSE LET found == FindById(store, ParseObjectId(property_id))
            IN  IF found = <<>>
                THEN /\ docs' = <<>>
                     /\ resp' = Error(404, "Property not found")
                ELSE /\ docs' = <<found[1]>>
                     /\ resp' = [status |-> 200, body |-> NormalizeGetDoc(found[1])]
    /\ UNCHANGED <<db, store, filter_dict>>

\* The response is sent; the values local to the request are dropped.
Respond ==
    /\ req # Idle
    /\ req' = Idle
    /\ filter_dict' = EmptyDict
    /\ docs' = <<>>
    /\ resp' = NoResponse
    /\ UNCHANGED <<db, store>>

\* Requests are served one at a time: a handler starts when none is running.
AddRequest ==
    /\ req = Idle
    /\ \E payload \in Bodies : add_property(payload)

ListRequest ==
    /\ req = Idle
    /\ \E q \in QInputs, type \in TypeInputs, location \in LocationInputs,
          min_price \in PriceInputs, max_price \in PriceInputs,
          bedrooms \in BedroomsInputs, featured \in FeaturedInputs,
          limit \in ListLimits :
           list_properties(q, type, location, min_price, max_price, bedrooms,
                           featured, limit)

\* A listing without filters, as the normalization does not depend on them.
ListAllRequest ==
    /\ req = Idle
    /\ \E limit \in LimitInputs :
           list_properties(None, None, None, None, None, None, None, limit)

GetRequest ==
    /\ req = Idle
    /\ \E property_id \in PropertyIdInputs : get_property(property_id)

Next == AddRequest \/ ListRequest \/ ListAllRequest \/ GetRequest \/ Respond

Spec == Init /\ [][Next]_vars

NextRaw == ListAllRequest \/ GetRequest \/ Respond

SpecRaw == InitRaw /\ [][NextRaw]_vars

(***************************************************************************)
(* Properties of the filter built by list_properties.                      *)
(***************************************************************************)
\* A list request whose handler body ran, so that its filter was built.
ListHandled == req.op = "list" /\ req.limit >= 1 /\ req.limit <= 100

\* A list request answered from the store.
ListAnswered == ListHandled /\ resp.status = 200

FilterOrder == <<"type", "location", "bedrooms", "featured", "price", "$or">>

OrderIndex(key) == CHOOSE i \in 1..Len(FilterOrder) : FilterOrder[i] = key

KeyCount(d, key) == Cardinality({i \in 1..Len(d.v) : d.v[i].k = key})

\* The clause a text parameter turns into for a substring test.
SubstringTest(text) ==
    Dict(<<[k |-> "$regex", v |-> text], [k |-> "$options", v |-> Str(<<"i">>)]>>)

\* C1: the filter has no clause for a parameter that was not supplied, its
\* clauses come in the order type, location, bedrooms, featured, price,
\* free-text, and it is determined by the request parameters alone.
C1_AbsentAndOrdered ==
    ListHandled =>
        /\ \A i \in 1..Len(filter_dict.v) :
               \E j \in 1..Len(FilterOrder) : FilterOrder[j] = filter_dict.v[i].k
        /\ \A i, j \in 1..Len(filter_dict.v) :
               i < j => OrderIndex(filter_dict.v[i].k) < OrderIndex(filter_dict.v[j].k)
        /\ req.type = None => ~DictHas(filter_dict, "type")
        /\ req.location = None => ~DictHas(filter_dict, "location")
        /\ req.bedrooms = None => ~DictHas(filter_dict, "bedrooms")
        /\ req.featured = None => ~DictHas(filter_dict, "featured")
        /\ (req.min_price = None /\ req.max_price = None) => ~DictHas(filter_dict, "price")
        /\ req.q = None => ~DictHas(filter_dict, "$or")
        /\ filter_dict = BuildFilter(req.q, req.type, req.location, req.min_price,
                                     req.max_price, req.bedrooms, req.featured)

\* A request with type, a lower price bound and a free-text term, and without
\* location, bedrooms and featured: three clauses, in the fixed order.
C1_Witness ==
    /\ ListHandled
    /\ req.type = Str(<<"a">>) /\ req.q = Str(<<"a">>) /\ req.min_price = PyFloat(1)
    /\ req.location = None /\ req.bedrooms = None /\ req.featured = None
    /\ req.max_price = None
    /\ DictKeys(filter_dict) = <<"type", "price", "$or">>

\* C2: with min_price or max_price supplied the filter has exactly one price
\* clause, holding an inclusive lower bound iff min_price was supplied and an
\* inclusive upper bound iff max_price was (the bound 0 included); with
\* neither supplied it has no price clause.
C2_PriceClause ==
    ListHandled =>
        IF req.min_price # None \/ req.max_price # None
        THEN /\ KeyCount(filter_dict, "price") = 1
             /\ LET p == DictGet(filter_dict, "price")
                IN  /\ p.t = "dict"
                    /\ \A i \in 1..Len(p.v) : p.v[i].k \in {"$gte", "$lte"}
                    /\ KeyCount(p, "$gte") = (IF req.min_price # None THEN 1 ELSE 0)
                    /\ KeyCount(p, "$lte") = (IF req.max_price # None THEN 1 ELSE 0)
                    /\ req.min_price # None => DictGet(p, "$gte") = req.min_price
                    /\ req.max_price # None => DictGet(p, "$lte") = req.max_price
             /\ resp.status = 200 =>
                    docs = get_documents(
                        SelectSeq(store, LAMBDA d :
                            /\ req.min_price # None => d.price.v >= req.min_price.v
                            /\ req.max_price # None => d.price.v <= req.max_price.v),
                        DictSet(filter_dict, "price", Dict(<<>>)), req.limit)
        ELSE ~DictHas(filter_dict, "price")

\* Both bounds supplied, the lower one 0, and a record priced 0 is returned
\* while a record priced 2 is left out.
C2_Witness ==
    /\ ListAnswered
    /\ req.min_price = PyFloat(0) /\ req.max_price = PyFloat(1)
    /\ \E i \in 1..Len(docs) : docs[i].price.v = 0
    /\ \E i \in 1..Len(store) : store[i].price.v = 2

\* The statement of C9, for a given reading of "a text parameter is present".
EqualityClauses(TextPresent(_)) ==
    ListHandled =>
        /\ TextPresent(req.type) =>
               KeyCount(filter_dict, "type") = 1 /\ DictGet(filter_dict, "type") = req.type
        /\ req.bedrooms # None =>
               KeyCount(filter_dict, "bedrooms") = 1
               /\ DictGet(filter_dict, "bedrooms") = req.bedrooms
        /\ req.featured # None =>
               KeyCount(filter_dict, "featured") = 1
               /\ DictGet(filter_dict, "featured") = req.featured

NonEmptyText(x) == x # None /\ x # Str(<<>>)

\* C9 as stated: type, bedrooms and featured each get an equality clause with
\* the supplied value when present, bedrooms=0, featured=false and an
\* empty-string type included.
C9_Original == EqualityClauses(IsNotNone)

\* C9, amended: bedrooms and featured each get an equality clause with the
\* supplied value when present (0 and false included), type gets one when
\* it is present and not empty, and an empty-string type adds no clause.
C9_EqualityClauses ==
    /\ EqualityClauses(NonEmptyText)
    /\ (ListHandled /\ req.type = Str(<<>>)) => ~DictHas(filter_dict, "type")

\* bedrooms=0, featured=false and a type, all three with their clauses,
\* asked of a store that holds a record.
C9_Witness ==
    /\ ListAnswered
    /\ req.bedrooms = PyInt(0) /\ req.featured = Bool(FALSE) /\ req.type = Str(<<"a">>)
    /\ DictKeys(filter_dict) = <<"type", "bedrooms", "featured">>
    /\ Len(store) >= 1

(***************************************************************************)
(* The records a list request must select, stated from its parameters.     *)
(***************************************************************************)
\* The constraints of the request other than the free-text term.
OtherConstraints(d, TextPresent(_)) ==
    /\ TextPresent(req.type) => d.type = req.type
    /\ TextPresent(req.location) => Contains(req.location.v, d.location.v)
    /\ req.bedrooms # None => (d.bedrooms # None /\ d.bedrooms.v = req.bedrooms.v)
    /\ req.featured # None => d.featured = req.featured
    /\ req.min_price # None => d.price.v >= req.min_price.v
    /\ req.max_price # None => d.price.v <= req.max_price.v

\* One of the three free-text tests holds.
FreeTextTest(d) ==
    \/ Contains(req.q.v, d.title.v)
    \/ Contains(req.q.v, d.location.v)
    \/ Contains(req.q.v, d.type.v)

\* The statement of C3, for a given reading of "a text parameter is supplied".
FreeTextClause(TextPresent(_)) ==
    (ListHandled /\ TextPresent(req.q)) =>
        /\ KeyCount(filter_dict, "$or") = 1
        /\ DictGet(filter_dict, "$or") =
               List(<<Dict(<<[k |-> "title", v |-> SubstringTest(req.q)]>>),
                      Dict(<<[k |-> "location", v |-> SubstringTest(req.q)]>>),
                      Dict(<<[k |-> "type", v |-> SubstringTest(req.q)]>>)>>)
        /\ TextPresent(req.location) =>
               /\ KeyCount(filter_dict, "location") = 1
               /\ DictGet(filter_dict, "location") = SubstringTest(req.location)
        /\ resp.status = 200 =>
               LET selected == SelectSeq(store, LAMBDA d :
                                   OtherConstraints(d, TextPresent) /\ FreeTextTest(d))
               IN  docs = SubSeq(selected, 1, Min(req.limit, Len(selected)))

WellFormed(s) ==
    /\ Len(s) = OidLen
    /\ \A i \in 1..Len(s) :
           s[i] \in {"0", "1", "2", "3", "4", "5", "6", "7", "8", "9",
                     "a", "b", "c", "d", "e", "f", "A", "B", "C", "D", "E", "F"}

\* A stored record carries the identifier (hexadecimal digits in either case).
Present(s) ==
    \E i \in 1..Len(store) :
        /\ "_id" \in DOMAIN store[i]
        /\ store[i]["_id"].t = "ObjectId"
        /\ store[i]["_id"].v = LowerText(s)

\* The statement of C4 for one get request.
GetOutcome ==
    /\ ~WellFormed(req.property_id) => resp.status = 400
    /\ (WellFormed(req.property_id) /\ ~Present(req.property_id)) => resp.status = 404
    /\ resp.status = 200 <=> (WellFormed(req.property_id) /\ Present(req.property_id))
    /\ resp.status = 200 => resp.body.id = Str(LowerText(req.property_id))

\* C4 as stated: 400 whenever the identifier is malformed, 404 whenever it is
\* well-formed and absent, a record only when it is well-formed and present.
C4_Original == req.op = "get" => GetOutcome

\* C4, amended: the same when the database is configured; when it is not,
\* every get request is answered 500, whatever the identifier.
C4_GetOutcome ==
    req.op = "get" => IF db THEN GetOutcome ELSE resp.status = 500

\* A well-formed identifier that no record of a non-empty store carries.
C4_Witness ==
    /\ req.op = "get" /\ db
    /\ WellFormed(req.property_id) /\ ~Present(req.property_id)
    /\ Len(store) >= 1
    /\ resp.status = 404

(***************************************************************************)
(* Properties of add_property.                                             *)
(***************************************************************************)
\* The bounds of the data model on one record or request body.
WithinBounds(p) ==
    /\ p.price.v >= 0
    /\ p.bedrooms # None => p.bedrooms.v >= 0
    /\ p.bathrooms # None => p.bathrooms.v >= 0
    /\ p.building_area_sqm # None => p.building_area_sqm.v >= 0
    /\ p.land_area_sqm # None => p.land_area_sqm.v >= 0

\* C8: every persisted record is within the bounds, and a request body
\* outside them inserts nothing: the store is as it was before the request.
C8_StoredWithinBounds ==
    /\ [](\A i \in 1..Len(store) : WithinBounds(store[i]))
    /\ [][(req'.op = "add" /\ ~WithinBounds(req'.payload)) => store' = store]_vars

\* A body outside the bounds was refused while the store holds a record.
C8_Witness ==
    /\ req.op = "add" /\ ~WithinBounds(req.payload)
    /\ req.payload.land_area_sqm = PyFloat(-1)
    /\ resp.status # 200
    /\ Len(store) >= 1

(***************************************************************************)
(* Properties of the normalization, on records of any shape the store may *)
(* return.                                                                 *)
(***************************************************************************)
IsDigit(c) == c \in {"0", "1", "2", "3", "4", "5", "6", "7", "8", "9"}

DigitValue(c) == CHOOSE n \in 0..9 : DigitChar(n) = c

RECURSIVE NumberOf(_)
\* The number a text of decimal digits writes.
NumberOf(s) == IF s = <<>> THEN 0
               ELSE 10 * NumberOf(SubSeq(s, 1, Len(s) - 1)) + DigitValue(s[Len(s)])

AllDigits(s) == \A i \in 1..Len(s) : IsDigit(s[i])

\* The text is the ISO-8601 form 1970-01-01THH:MM:SS[.ffffff] of the time
\* `us` microseconds after the epoch, read back field by field.
IsIsoTextOf(s, us) ==
    /\ Len(s) \in {19, 26}
    /\ SubSeq(s, 1, 11) = <<"1", "9", "7", "0", "-", "0", "1", "-", "0", "1", "T">>
    /\ s[14] = ":" /\ s[17] = ":"
    /\ AllDigits(SubSeq(s, 12, 13)) /\ AllDigits(SubSeq(s, 15, 16))
    /\ AllDigits(SubSeq(s, 18, 19))
    /\ Len(s) = 26 => (s[20] = "." /\ AllDigits(SubSeq(s, 21, 26)))
    /\ LET hh == NumberOf(SubSeq(s, 12, 13))
           mm == NumberOf(SubSeq(s, 15, 16))
           ss == NumberOf(SubSeq(s, 18, 19))
           micro == IF Len(s) = 26 THEN NumberOf(SubSeq(s, 21, 26)) ELSE 0
       IN  /\ mm < 60 /\ ss < 60 /\ hh < 24
           /\ Len(s) = 26 => micro # 0
           /\ ((hh * 60 + mm) * 60 + ss) * 1000000 + micro = us

TimestampKeys == {"created_at", "updated_at"}

\* The field of the output is what the claim says of a timestamp field:
\* the ISO text of a timestamp, any other value as it was.
TimestampFieldDone(raw, out, key) ==
    /\ key \in DOMAIN out
    /\ IF raw[key].t = "datetime"
       THEN out[key].t = "str" /\ IsIsoTextOf(out[key].v, raw[key].v)
       ELSE out[key] = raw[key]

\* out is the record raw, which has an `_id`, normalized as C5 says.
NormalizedWithId(raw, out) ==
    /\ DOMAIN out = (DOMAIN raw \ {"_id"}) \cup {"id"}
    /\ out["id"] = Str(raw["_id"].v)
    /\ \A key \in DOMAIN raw \ {"_id", "id"} :
           IF key \in TimestampKeys THEN TimestampFieldDone(raw, out, key)
           ELSE out[key] = raw[key]

\* The records returned for the request and what the response holds for each.
Answered == req.op \in {"list", "get"} /\ resp.status = 200

Returned(i) == IF req.op = "list" THEN resp.body.items[i] ELSE resp.body

ReturnedCount == IF req.op = "list" THEN Len(resp.body.items) ELSE 1

\* C5: a record with an `_id` comes back with `id` the string form of the
\* `_id`, without `_id`, each timestamp-valued created_at/updated_at as ISO
\* text and every other field unchanged, in list results and in get-by-id.
C5_Normalized ==
    Answered =>
        /\ ReturnedCount = Len(docs)
        /\ \A i \in 1..Len(docs) :
               "_id" \in DOMAIN docs[i] => NormalizedWithId(docs[i], Returned(i))

\* A list result whose first record had an `_id` and two timestamps, the
\* first with microseconds and the second without.
C5_Witness ==
    /\ req.op = "list" /\ resp.status = 200 /\ Len(docs) = 2
    /\ "_id" \in DOMAIN docs[1]
    /\ "created_at" \in DOMAIN docs[1] /\ docs[1]["created_at"].t = "datetime"
    /\ "updated_at" \in DOMAIN docs[1] /\ docs[1]["updated_at"].t = "datetime"
    /\ Len(resp.body.items[1]["created_at"].v) = 26
    /\ Len(resp.body.items[1]["updated_at"].v) = 19
    /\ "_id" \notin DOMAIN resp.body.items[1]

\* Some timestamp field of the record is present and not a timestamp.
HasBadTimestamp(d) ==
    \E key \in TimestampKeys : key \in DOMAIN d /\ d[key].t # "datetime"

\* C6: a created_at/updated_at that is present and not a timestamp is left
\* as it is and raises no error; the record's `_id` and other timestamp field
\* are still converted, and every other record of the batch is still
\* normalized and returned.
C6_BadTimestampKept ==
    (ListHandled /\ db) =>
        /\ resp.status = 200
        /\ docs = SubSeq(store, 1, Min(req.limit, Len(store)))
        /\ Len(resp.body.items) = Len(docs)
        /\ \A i \in 1..Len(docs) :
               HasBadTimestamp(docs[i]) =>
                   /\ \A key \in TimestampKeys \cap DOMAIN docs[i] :
                          TimestampFieldDone(docs[i], resp.body.items[i], key)
                   /\ "_id" \in DOMAIN docs[i] =>
                          /\ "_id" \notin DOMAIN resp.body.items[i]
                          /\ resp.body.items[i]["id"] = Str(docs[i]["_id"].v)
                   /\ \A j \in 1..Len(docs) :
                          (j # i /\ "_id" \in DOMAIN docs[j]) =>
                              NormalizedWithId(docs[j], resp.body.items[j])

\* A batch of two: the first record has a text for created_at and a
\* timestamp for updated_at, the second two timestamps.
C6_Witness ==
    /\ ListAnswered /\ Len(docs) = 2
    /\ "_id" \in DOMAIN docs[1]
    /\ "created_at" \in DOMAIN docs[1] /\ docs[1]["created_at"] = Str(<<"b">>)
    /\ "updated_at" \in DOMAIN docs[1] /\ docs[1]["updated_at"].t = "datetime"
    /\ resp.body.items[1]["created_at"] = Str(<<"b">>)
    /\ resp.body.items[1]["updated_at"].t = "str"
    /\ ~HasBadTimestamp(docs[2]) /\ "created_at" \in DOMAIN docs[2]
    /\ resp.body.items[2]["created_at"].t = "str"

\* C7: the normalization steps of list_properties applied to a record they
\* have produced return it unchanged.
C7_Idempotent ==
    ListAnswered =>
        \A i \in 1..Len(resp.body.items) :
            NormalizeListDoc(resp.body.items[i]) = resp.body.items[i]

\* A returned record that the steps did change: its `_id` became `id` and
\* its created_at became text.
C7_Witness ==
    /\ ListAnswered /\ Len(docs) >= 1
    /\ "_id" \in DOMAIN docs[1]
    /\ "created_at" \in DOMAIN docs[1] /\ docs[1]["created_at"].t = "datetime"
    /\ resp.body.items[1] # docs[1]
    /\ resp.body.items[1]["created_at"].t = "str"
    /\ "id" \in DOMAIN resp.body.items[1]

\* C10 as stated: a record with no `_id` is passed through unchanged, no
\* `id` added and no field modified, created_at and updated_at included.
C10_Original ==
    Answered =>
        \A i \in 1..Len(docs) :
            "_id" \notin DOMAIN docs[i] => Returned(i) = docs[i]

\* C10, amended: a record with no `_id` gets no `id` key and keeps every
\* field, unchanged but for a timestamp-valued created_at/updated_at, which
\* is still replaced by its ISO text.
C10_NoIdPassThrough ==
    Answered =>
        /\ ReturnedCount = Len(docs)
        /\ \A i \in 1..Len(docs) :
               "_id" \notin DOMAIN docs[i] =>
                   /\ DOMAIN Returned(i) = DOMAIN docs[i]
                   /\ "id" \notin DOMAIN Returned(i)
                   /\ \A key \in DOMAIN docs[i] :
                          IF key \in TimestampKeys
                          THEN TimestampFieldDone(docs[i], Returned(i), key)
                          ELSE Returned(i)[key] = docs[i][key]

\* A returned record that had no `_id` and a timestamp for created_at.
C10_Witness ==
    /\ ListAnswered /\ Len(docs) >= 1
    /\ "_id" \notin DOMAIN docs[1]
    /\ "created_at" \in DOMAIN docs[1] /\ docs[1]["created_at"].t = "datetime"
    /\ resp.body.items[1]["created_at"].t = "str"
    /\ "id" \notin DOMAIN resp.body.items[1]

====
